---- MODULE Spec2Model ----
(***************************************************************************)
(* Model of the jira-diff-validator back end: the git, jira and llm route  *)
(* handlers (src/app/api/*/route.ts), the Jira client and the rich-text    *)
(* flattener (src/lib/jira-ticket-retrieval.ts) and the ticket-ID pattern  *)
(* of the page (src/app/page.tsx).                                         *)
(*                                                                         *)
(* A JavaScript string is a sequence of fragments (TLA+ strings) that are  *)
(* concatenated in order.  Every character an operation looks at (blank,   *)
(* line feed, '*', '/', '-', '.', a digit, a letter of a branch name) is a  *)
(* fragment of its own; literal text of the templates is kept in larger    *)
(* fragments.                                                              *)
(***************************************************************************)
EXTENDS Integers, Sequences, FiniteSets, TLC

(***************************************************************************)
(* Bounds of the model                                                     *)
(***************************************************************************)
MaxBranches == 3
MaxNameLen == 4
MaxItems == 2
MaxBlocks == 2

(***************************************************************************)
(* Strings                                                                 *)
(***************************************************************************)
LF == "\n"
SP == " "

IsSpace(c) == c \in {SP, LF, "\t", "\r"}

RECURSIVE TrimStart(_)
TrimStart(s) ==
  IF s = <<>> THEN <<>>
  ELSE IF IsSpace(Head(s)) THEN TrimStart(Tail(s)) ELSE s

RECURSIVE TrimEnd(_)
TrimEnd(s) ==
  IF s = <<>> THEN <<>>
  ELSE IF IsSpace(s[Len(s)]) THEN TrimEnd(SubSeq(s, 1, Len(s) - 1)) ELSE s

\* String.prototype.trim
Trim(s) == TrimEnd(TrimStart(s))

\* String.prototype.startsWith
StartsWith(s, p) == Len(s) >= Len(p) /\ SubSeq(s, 1, Len(p)) = p

\* String.prototype.substring(n)
Substring(s, n) == SubSeq(s, n + 1, Len(s))

\* String.prototype.split(sep) for a one-character separator: the pieces
\* between the separators, empty pieces included
RECURSIVE SplitFrom(_, _, _)
SplitFrom(s, sep, cur) ==
  IF s = <<>> THEN <<cur>>
  ELSE IF Head(s) = sep THEN <<cur>> \o SplitFrom(Tail(s), sep, <<>>)
       ELSE SplitFrom(Tail(s), sep, Append(cur, Head(s)))

Split(s, sep) == SplitFrom(s, sep, <<>>)

\* Array.prototype.join
RECURSIVE Join(_, _)
Join(parts, sep) ==
  IF parts = <<>> THEN <<>>
  ELSE IF Len(parts) = 1 THEN parts[1]
       ELSE parts[1] \o sep \o Join(Tail(parts), sep)

\* the concatenation of a sequence of strings
RECURSIVE Concat(_)
Concat(ss) == IF ss = <<>> THEN <<>> ELSE Head(ss) \o Concat(Tail(ss))

\* Array.prototype.includes
Includes(arr, x) == \E i \in 1..Len(arr) : arr[i] = x

\* all sequences over S of length lo..hi
SeqsOf(S, lo, hi) == UNION {[1..n -> S] : n \in lo..hi}

(***************************************************************************)
(* Values of type  string | null                                           *)
(***************************************************************************)
Null == [isNull |-> TRUE, val |-> <<>>]
Some(s) == [isNull |-> FALSE, val |-> s]

(***************************************************************************)
(* The git adapter  (src/app/api/git/route.ts)                             *)
(*                                                                         *)
(* fs is the set of paths that exist; sh gives, for each git command the   *)
(* adapter runs, what execSync does with it: [ok |-> TRUE, out |-> text]   *)
(* or a throw.  An operation yields its return value and the list of the   *)
(* external commands it ran.                                               *)
(***************************************************************************)
existsSync(projectPath, fs) == projectPath \in fs

\* How a function call ends: it returns a value, or it throws an error with a
\* message.  execs lists the external commands it ran.
Return(v, execs) == [threw |-> FALSE, ret |-> v, error |-> <<>>, execs |-> execs]
Throw(message, execs) == [threw |-> TRUE, ret |-> Null, error |-> message, execs |-> execs]

GitBranchCmd == <<"git branch">>
GitShowCurrentCmd == <<"git branch --show-current">>
GitRemoteShowCmd == <<"git remote show origin">>

Exec(cmd, projectPath) == [cmd |-> cmd, cwd |-> projectPath]

\* .filter(branch => branch.length > 0)
RECURSIVE FilterNonEmpty(_)
FilterNonEmpty(arr) ==
  IF arr = <<>> THEN <<>>
  ELSE IF Len(Head(arr)) > 0 THEN <<Head(arr)>> \o FilterNonEmpty(Tail(arr))
       ELSE FilterNonEmpty(Tail(arr))

\* branch => (branch.startsWith('* ') ? branch.substring(2) : branch)
StripCurrentMarker(branch) ==
  IF StartsWith(branch, <<"*", SP>>) THEN Substring(branch, 2) ELSE branch

\* output.split('\n').map(trim).filter(nonempty).map(strip '* ')
ParseBranches(output) ==
  LET lines == Split(output, LF)
      trimmed == [i \in 1..Len(lines) |-> Trim(lines[i])]
      kept == FilterNonEmpty(trimmed)
  IN  [i \in 1..Len(kept) |-> StripCurrentMarker(kept[i])]

getBranches(projectPath, fs, sh) ==
  IF ~existsSync(projectPath, fs) THEN Return(<<>>, <<>>)
  ELSE IF sh.branch.ok
       THEN Return(ParseBranches(sh.branch.out), <<Exec(GitBranchCmd, projectPath)>>)
       ELSE Return(<<>>, <<Exec(GitBranchCmd, projectPath)>>)

\* the operation without its try/catch
getCurrentBranch_NoCatch(projectPath, fs, sh) ==
  IF ~existsSync(projectPath, fs) THEN Return(Null, <<>>)
  ELSE IF sh.current.ok
       THEN Return(Some(Trim(sh.current.out)), <<Exec(GitShowCurrentCmd, projectPath)>>)
       ELSE Throw(sh.current.message, <<Exec(GitShowCurrentCmd, projectPath)>>)

getCurrentBranch(projectPath, fs, sh) ==
  IF ~existsSync(projectPath, fs) THEN Return(Null, <<>>)
  ELSE IF sh.current.ok
       THEN Return(Some(Trim(sh.current.out)), <<Exec(GitShowCurrentCmd, projectPath)>>)
       ELSE Return(Null, <<Exec(GitShowCurrentCmd, projectPath)>>)

develop == <<"d", "e", "v", "e", "l", "o", "p">>
main == <<"m", "a", "i", "n">>
master == <<"m", "a", "s", "t", "e", "r">>

commonDefaultBranches == <<develop, main, master>>

\* the loops nested the other way round: the first listed branch that is a
\* common name
RECURSIVE FirstCommon_ListOrder(_, _)
FirstCommon_ListOrder(candidates, branches) ==
  IF branches = <<>> THEN Null
  ELSE IF Includes(candidates, Head(branches)) THEN Some(Head(branches))
       ELSE FirstCommon_ListOrder(candidates, Tail(branches))

\* for (const branch of commonDefaultBranches) if (branches.includes(branch)) return branch
RECURSIVE FirstCommon(_, _)
FirstCommon(candidates, branches) ==
  IF candidates = <<>> THEN Null
  ELSE IF Includes(branches, Head(candidates)) THEN Some(Head(candidates))
       ELSE FirstCommon(Tail(candidates), branches)

\* remoteOutput.match(/HEAD branch: (.+)/): the first place where the literal
\* is followed by at least one character other than a line terminator; the
\* group runs to the end of that line
HeadBranchLit == "HEAD branch: "
IsLineTerminator(c) == c \in {LF, "\r"}

RECURSIVE LineRest(_)
LineRest(s) ==
  IF s = <<>> \/ IsLineTerminator(Head(s)) THEN <<>>
  ELSE <<Head(s)>> \o LineRest(Tail(s))

RECURSIVE HeadBranchMatch(_)
HeadBranchMatch(s) ==
  IF s = <<>> THEN Null
  ELSE IF Head(s) = HeadBranchLit /\ LineRest(Tail(s)) # <<>>
       THEN Some(LineRest(Tail(s)))
       ELSE HeadBranchMatch(Tail(s))

\* the fallbacks in the other order: the first listed branch before the remote
getDefaultBranch_FirstBeforeRemote(projectPath, fs, sh) ==
  IF ~existsSync(projectPath, fs) THEN Return(Null, <<>>)
  ELSE
    LET b == getBranches(projectPath, fs, sh)
        branches == b.ret
        common == FirstCommon(commonDefaultBranches, branches)
        remoteExecs == b.execs \o <<Exec(GitRemoteShowCmd, projectPath)>>
        headBranchMatch == IF sh.remote.ok THEN HeadBranchMatch(sh.remote.out) ELSE Null
    IN  IF ~common.isNull THEN Return(common, b.execs)
        ELSE IF Len(branches) > 0 THEN Return(Some(branches[1]), b.execs)
        ELSE IF ~headBranchMatch.isNull
             THEN Return(Some(Trim(headBranchMatch.val)), remoteExecs)
             ELSE Return(Null, remoteExecs)

\* the remote query without its own try/catch: its failure reaches the outer
\* catch, which returns null
getDefaultBranch_RemoteFailureAborts(projectPath, fs, sh) ==
  IF ~existsSync(projectPath, fs) THEN Return(Null, <<>>)
  ELSE
    LET b == getBranches(projectPath, fs, sh)
        branches == b.ret
        common == FirstCommon(commonDefaultBranches, branches)
        remoteExecs == b.execs \o <<Exec(GitRemoteShowCmd, projectPath)>>
        headBranchMatch == IF sh.remote.ok THEN HeadBranchMatch(sh.remote.out) ELSE Null
    IN  IF ~common.isNull THEN Return(common, b.execs)
        ELSE IF ~sh.remote.ok THEN Return(Null, remoteExecs)
        ELSE IF ~headBranchMatch.isNull
             THEN Return(Some(Trim(headBranchMatch.val)), remoteExecs)
             ELSE Return(IF Len(branches) > 0 THEN Some(branches[1]) ELSE Null, remoteExecs)

getDefaultBranch(projectPath, fs, sh) ==
  IF ~existsSync(projectPath, fs) THEN Return(Null, <<>>)
  ELSE
    LET b == getBranches(projectPath, fs, sh)
        branches == b.ret
        common == FirstCommon(commonDefaultBranches, branches)
        remoteExecs == b.execs \o <<Exec(GitRemoteShowCmd, projectPath)>>
        headBranchMatch == IF sh.remote.ok THEN HeadBranchMatch(sh.remote.out) ELSE Null
    IN  IF b.threw THEN Return(Null, b.execs)
        ELSE IF ~common.isNull THEN Return(common, b.execs)
        ELSE IF ~headBranchMatch.isNull
             THEN Return(Some(Trim(headBranchMatch.val)), remoteExecs)
             ELSE Return(IF Len(branches) > 0 THEN Some(branches[1]) ELSE Null, remoteExecs)

DefaultExcludePatterns == << <<"**/*.snap">>, <<"**/*.json">> >>

\* the template  git diff ${fromBranch}...${toBranch} -- ${excludeArgs}
GitDiffCmd(fromBranch, toBranch, excludePatterns) ==
  LET excludeArgs ==
        Join([i \in 1..Len(excludePatterns) |->
                <<"':(exclude)">> \o excludePatterns[i] \o <<"'">>], <<SP>>)
  IN  <<"git diff ">> \o fromBranch \o <<"...">> \o toBranch \o <<" -- ">> \o excludeArgs

\* the operation without its existsSync guard
getDiff_NoExistsCheck(projectPath, fromBranch, toBranch, excludePatterns, fs, sh) ==
  LET patterns == IF excludePatterns.given THEN excludePatterns.val
                  ELSE DefaultExcludePatterns
      execs == <<Exec(GitDiffCmd(fromBranch, toBranch, patterns), projectPath)>>
  IN  IF existsSync(projectPath, fs) /\ sh.diff.ok THEN Return(Some(sh.diff.out), execs)
      ELSE Return(Null, execs)

\* excludePatterns: [given |-> FALSE] stands for an absent (undefined) argument
getDiff(projectPath, fromBranch, toBranch, excludePatterns, fs, sh) ==
  IF ~existsSync(projectPath, fs) THEN Return(Null, <<>>)
  ELSE
    LET patterns == IF excludePatterns.given THEN excludePatterns.val
                    ELSE DefaultExcludePatterns
        execs == <<Exec(GitDiffCmd(fromBranch, toBranch, patterns), projectPath)>>
    IN  IF sh.diff.ok THEN Return(Some(sh.diff.out), execs)
        ELSE Return(Null, execs)

\* path.basename: the part after the last separator, trailing separators dropped
RECURSIVE DropTrailingSlashes(_)
DropTrailingSlashes(p) ==
  IF p # <<>> /\ p[Len(p)] = "/" THEN DropTrailingSlashes(SubSeq(p, 1, Len(p) - 1))
  ELSE p

basename(p) ==
  LET q == DropTrailingSlashes(p)
      parts == Split(q, "/")
  IN  parts[Len(parts)]

getProjectName(projectPath, fs) ==
  IF ~existsSync(projectPath, fs) THEN Return(Null, <<>>)
  ELSE Return(Some(basename(projectPath)), <<>>)

(***************************************************************************)
(* HTTP responses: NextResponse.json(body, {status})                       *)
(***************************************************************************)
StatusOk == 200
StatusBadRequest == 400
StatusServerError == 500

DataResponse(data) == [status |-> StatusOk, kind |-> "data", payload |-> data]
ErrorResponse(error, status) == [status |-> status, kind |-> "error", payload |-> error]

InvalidAction == <<"Invalid action">>

\* return NextResponse.json({data: op(...)}) inside the handler's try: an
\* operation that throws is answered by the catch with status 500
Answer(r) ==
  IF r.threw
  THEN [response |-> ErrorResponse(r.error, StatusServerError), execs |-> r.execs]
  ELSE [response |-> DataResponse(r.ret), execs |-> r.execs]

\* POST of the git route.  body.json = FALSE: request.json() throws with the
\* message body.message
POST_git(body, fs, sh) ==
  IF ~body.json
  THEN Answer(Throw(body.message, <<>>))
  ELSE
    CASE body.action = <<"getBranches">> ->
           Answer(getBranches(body.projectPath, fs, sh))
      [] body.action = <<"getCurrentBranch">> ->
           Answer(getCurrentBranch(body.projectPath, fs, sh))
      [] body.action = <<"getDefaultBranch">> ->
           Answer(getDefaultBranch(body.projectPath, fs, sh))
      [] body.action = <<"getDiff">> ->
           Answer(getDiff(body.projectPath, body.fromBranch, body.toBranch,
                          body.excludePatterns, fs, sh))
      [] body.action = <<"getProjectName">> ->
           Answer(getProjectName(body.projectPath, fs))
      [] OTHER ->
           [response |-> ErrorResponse(InvalidAction, StatusBadRequest), execs |-> <<>>]

(***************************************************************************)
(* Inputs of the git route                                                 *)
(***************************************************************************)
featureBranch ==
  <<"f", "e", "a", "t", "u", "r", "e", "/", "P", "R", "O", "J", "-", "1", "2", "3",
    "-", "a", "d", "d", "-", "b", "u", "t", "t", "o", "n">>
hotfix == <<"h", "o", "t", "f", "i", "x">>

BranchNames == {develop, main, master, featureBranch, hotfix}

RepoPath == <<"/", "srv", "/", "shop-app">>
RepoPathSlash == <<"/", "srv", "/", "shop-app", "/">>
NoPath == <<>>
Paths == {RepoPath, RepoPathSlash, NoPath}

\* the empty path never exists
FileSystems(projectPath) == IF projectPath = NoPath THEN {{}} ELSE {{}, {projectPath}}

\* execSync throws (the command exits with a failure) or returns what the command printed
Threw == [ok |-> FALSE, out |-> <<>>, message |-> <<"Command failed">>]
Printed(out) == [ok |-> TRUE, out |-> out, message |-> <<>>]
NotRun == [branch |-> Threw, current |-> Threw, remote |-> Threw, diff |-> Threw]

\* sequences of distinct branch names, in any order
BranchLists ==
  {l \in SeqsOf(BranchNames, 0, MaxBranches) :
     \A i, j \in 1..Len(l) : i # j => l[i] # l[j]}

\* what "git branch" prints for a list of branches of which number cur is
\* checked out (cur = 0: none of them): one line per branch, "* " before the
\* current one and two blanks before the others
BranchLine(name, isCurrent) ==
  (IF isCurrent THEN <<"*", SP>> ELSE <<SP, SP>>) \o name \o <<LF>>

BranchOutput(l, cur) == Concat([i \in 1..Len(l) |-> BranchLine(l[i], i = cur)])

GitBranchOutcomes ==
  {Threw} \cup {Printed(BranchOutput(l, cur)) : l \in BranchLists, cur \in 0..MaxBranches}

GitShowCurrentOutcomes ==
  {Threw, Printed(<<>>)} \cup {Printed(b \o <<LF>>) : b \in BranchNames}

trunk == <<"t", "r", "u", "n", "k">>

RemoteHeader == <<"* remote origin", LF, SP, SP, "Fetch URL: git@host:shop-app.git", LF>>
RemoteFooter == <<SP, SP, "Remote branches:", LF>>

\* "git remote show origin": without a HEAD line, with one, with one that ends
\* in blank and carriage return, and with one that names nothing
RemoteWithoutHead == RemoteHeader \o RemoteFooter
RemoteWithHead == RemoteHeader \o <<SP, SP, HeadBranchLit>> \o trunk \o <<LF>> \o RemoteFooter
RemoteWithHeadPadded ==
  RemoteHeader \o <<SP, SP, HeadBranchLit>> \o trunk \o <<SP, "\r", LF>> \o RemoteFooter
RemoteEmptyHead == RemoteHeader \o <<SP, SP, HeadBranchLit, LF>> \o RemoteFooter

GitRemoteShowOutcomes ==
  {Threw, Printed(RemoteWithoutHead), Printed(RemoteWithHead), Printed(RemoteWithHeadPadded),
   Printed(RemoteEmptyHead)}

\* the fragment that stands for a code fence, three backquotes
Fence == "<fence>"

DiffTexts ==
  { <<>>,
    <<"diff --git a/src/a.ts b/src/a.ts", LF, "+const a = 1;", LF>>,
    <<"diff --git a/README.md b/README.md", LF, "+", Fence, LF, "+npm test", LF, "+", Fence, LF>> }

GitDiffOutcomes == {Threw} \cup {Printed(d) : d \in DiffTexts}

ExcludePatternArgs ==
  { [given |-> FALSE, val |-> <<>>],
    [given |-> TRUE, val |-> <<>>],
    [given |-> TRUE, val |-> << <<"dist/**">> >>] }

GitActions ==
  {<<"getBranches">>, <<"getCurrentBranch">>, <<"getDefaultBranch">>, <<"getDiff">>,
   <<"getProjectName">>}
UnknownActions == {<<"deleteBranch">>, <<>>}

MalformedBody == [json |-> FALSE, message |-> <<"Unexpected end of JSON input">>]

GitBody(action, projectPath, fromBranch, toBranch, excludePatterns) ==
  [json |-> TRUE, action |-> action, projectPath |-> projectPath,
   fromBranch |-> fromBranch, toBranch |-> toBranch, excludePatterns |-> excludePatterns]

NoPatterns == [given |-> FALSE, val |-> <<>>]

GitCall(body, fs, sh) == [endpoint |-> "git", body |-> body, fs |-> fs, sh |-> sh]

\* a project path together with a file system it meets
LocatedIn(paths) == UNION {{<<p, fs>> : fs \in FileSystems(p)} : p \in paths}
Located == LocatedIn(Paths)

\* The POSTs to /api/git that are modelled.  Only the command outcomes the
\* requested operation can meet are varied.
GitCalls ==
  {GitCall(GitBody(<<"getBranches">>, w[1], <<>>, <<>>, NoPatterns), w[2],
           [NotRun EXCEPT !.branch = o]) :
     w \in Located, o \in GitBranchOutcomes}
  \cup
  {GitCall(GitBody(<<"getCurrentBranch">>, w[1], <<>>, <<>>, NoPatterns), w[2],
           [NotRun EXCEPT !.current = o]) :
     w \in Located, o \in GitShowCurrentOutcomes}
  \cup
  {GitCall(GitBody(<<"getDefaultBranch">>, w[1], <<>>, <<>>, NoPatterns), w[2],
           [NotRun EXCEPT !.branch = o, !.remote = ro]) :
     w \in LocatedIn({RepoPath, NoPath}), o \in GitBranchOutcomes,
     ro \in GitRemoteShowOutcomes}
  \cup
  {GitCall(GitBody(<<"getDiff">>, w[1], from, to, ex), w[2], [NotRun EXCEPT !.diff = o]) :
     w \in Located, o \in GitDiffOutcomes, from \in BranchNames, to \in BranchNames,
     ex \in ExcludePatternArgs}
  \cup
  {GitCall(GitBody(a, w[1], <<>>, <<>>, NoPatterns), w[2], NotRun) :
     a \in {<<"getProjectName">>} \cup UnknownActions, w \in Located}
  \cup
  {GitCall(MalformedBody, {}, NotRun)}

(***************************************************************************)
(* The Jira client  (src/lib/jira-ticket-retrieval.ts)                     *)
(***************************************************************************)
\* a rich-text node {type, text, content}; an absent text or content is empty
Node(type, text, content) == [type |-> type, text |-> text, content |-> content]

\* the literal of line 77 of the source: the characters U+00E2 U+20AC U+00A2
\* and a blank
BulletLiteral == <<"U+00E2", "U+20AC", "U+00A2", SP>>

RECURSIVE extractTextFromADF(_)
extractTextFromADF(node) ==
  LET own == IF node.type = "text" /\ node.text # <<>> THEN node.text ELSE <<>>
      paragraphOpen == IF node.type = "paragraph" THEN <<LF>> ELSE <<>>
      listOpen == IF node.type = "bulletList" THEN <<LF>> ELSE <<>>
      itemOpen == IF node.type = "listItem" THEN BulletLiteral ELSE <<>>
      children == Concat([i \in 1..Len(node.content) |->
                            extractTextFromADF(node.content[i])])
      close == IF node.type = "paragraph" \/ node.type = "listItem" THEN <<LF>> ELSE <<>>
  IN  own \o paragraphOpen \o listOpen \o itemOpen \o children \o close

\* process.env: a variable is unset (Null) or set to a string, possibly empty
Falsy(v) == v.isNull \/ v.val = <<>>

\* new JiraClient(config)
JiraClient(domain, email, apiToken) ==
  [isNull |-> FALSE,
   baseUrl |-> <<"https://">> \o domain \o <<"/rest/api/3">>,
   email |-> email, apiToken |-> apiToken]

NoClient == [isNull |-> TRUE, baseUrl |-> <<>>, email |-> <<>>, apiToken |-> <<>>]

\* the check without the API token
jiraClientFrom_TokenUnchecked(env) ==
  IF Falsy(env.JIRA_DOMAIN) \/ Falsy(env.JIRA_EMAIL) THEN NoClient
  ELSE JiraClient(env.JIRA_DOMAIN.val, env.JIRA_EMAIL.val, env.JIRA_API_TOKEN.val)

jiraClientFrom(env) ==
  IF Falsy(env.JIRA_DOMAIN) \/ Falsy(env.JIRA_EMAIL) \/ Falsy(env.JIRA_API_TOKEN)
  THEN NoClient
  ELSE JiraClient(env.JIRA_DOMAIN.val, env.JIRA_EMAIL.val, env.JIRA_API_TOKEN.val)

\* the request of JiraClient.getTicket.  Base64 is kept as a marked
\* application to its argument.
TicketRequest(client, ticketIdentifier) ==
  [url |-> client.baseUrl \o <<"/issue/">> \o ticketIdentifier
             \o <<"?", "fields=summary%2Cdescription%2Cparent">>,
   authorization |-> <<"Basic ", "base64(">> \o client.email \o <<":">> \o client.apiToken
                       \o <<")">>]

NoParents == [given |-> FALSE, val |-> <<>>]

Ticket(ticketId, title, description, parents) ==
  [isNull |-> FALSE, ticketId |-> ticketId, title |-> title, description |-> description,
   markdownDescription |-> description, parents |-> parents]

NoTicket ==
  [isNull |-> TRUE, ticketId |-> <<>>, title |-> <<>>, description |-> <<>>,
   markdownDescription |-> <<>>, parents |-> NoParents]

\* typeof description === 'object' ? extractTextFromADF(description)
\*                                 : String(description || '')
\* description: kind "undefined", "null", "string" (its text) or "object" (its
\* node); the result is the text, or a throw: extractTextFromADF(null) reads
\* null.type
FormatDescription(description) ==
  CASE description.kind = "object" -> Return(extractTextFromADF(description.node), <<>>)
    [] description.kind = "null" ->
         Throw(<<"Cannot read properties of null (reading 'type')">>, <<>>)
    [] description.kind = "string" -> Return(description.text, <<>>)
    [] OTHER -> Return(<<>>, <<>>)

\* getTicket that also reads the parent issue from the tracker
JiraClient_getTicket_FetchesParent(client, ticketIdentifier, tracker) ==
  LET parentGiven == tracker.reached /\ tracker.ok /\ tracker.fields.parent.given
      fetches == <<TicketRequest(client, ticketIdentifier)>>
                   \o (IF parentGiven
                       THEN <<TicketRequest(client, tracker.fields.parent.key)>>
                       ELSE <<>>)
      formattedDesc == FormatDescription(tracker.fields.description)
      parents == IF tracker.fields.parent.given
                 THEN [given |-> TRUE,
                       val |-> <<Ticket(tracker.fields.parent.key, tracker.fields.summary,
                                        <<>>, NoParents)>>]
                 ELSE NoParents
  IN  IF ~tracker.reached \/ ~tracker.ok THEN Return(NoTicket, fetches)
      ELSE IF formattedDesc.threw THEN Return(NoTicket, fetches)
      ELSE Return(Ticket(ticketIdentifier, tracker.fields.summary, formattedDesc.ret,
                         parents), fetches)

\* JiraClient.getTicket against the tracker's answer.  tracker.reached = FALSE:
\* fetch throws; tracker.ok = FALSE: a non-success status; otherwise
\* tracker.fields is the issue.  Yields the ticket or null, and the requests made.
JiraClient_getTicket(client, ticketIdentifier, tracker) ==
  LET fetches == <<TicketRequest(client, ticketIdentifier)>>
      formattedDesc == FormatDescription(tracker.fields.description)
      parents == IF tracker.fields.parent.given
                 THEN [given |-> TRUE,
                       val |-> <<Ticket(tracker.fields.parent.key, <<>>, <<>>, NoParents)>>]
                 ELSE NoParents
  IN  IF ~tracker.reached \/ ~tracker.ok THEN Return(NoTicket, fetches)
      ELSE IF formattedDesc.threw THEN Return(NoTicket, fetches)
      ELSE Return(Ticket(ticketIdentifier, tracker.fields.summary, formattedDesc.ret,
                         parents), fetches)

(***************************************************************************)
(* The jira route  (src/app/api/jira/route.ts)                             *)
(***************************************************************************)
MissingJiraConfiguration ==
  <<"Missing Jira configuration. Please check your environment variables.">>

\* String(error) of an Error with this message
ErrorToString(message) == <<"Error: ">> \o message

getTicket(ticketId, env, tracker) ==
  LET jiraClient == jiraClientFrom(env)
  IN  IF jiraClient.isNull THEN Throw(MissingJiraConfiguration, <<>>)
      ELSE JiraClient_getTicket(jiraClient, ticketId, tracker)

\* the catch answers with String(error); execs of the result are the requests
\* made to the tracker
POST_jira(body, env, tracker) ==
  IF ~body.json
  THEN [response |-> ErrorResponse(<<"SyntaxError: ">> \o body.message, StatusServerError),
        execs |-> <<>>]
  ELSE IF body.action = <<"getTicket">>
       THEN LET r == getTicket(body.ticketId, env, tracker)
            IN  IF r.threw
                THEN [response |-> ErrorResponse(ErrorToString(r.error), StatusServerError),
                      execs |-> r.execs]
                ELSE [response |-> DataResponse(r.ret), execs |-> r.execs]
       ELSE [response |-> ErrorResponse(InvalidAction, StatusBadRequest), execs |-> <<>>]

(***************************************************************************)
(* Inputs of the jira route                                                *)
(***************************************************************************)
Text(s) == Node("text", s, <<>>)

TextNodes == {Text(<<"Done">>), Text(<<"A">>), Text(<<"B">>)}
Paragraphs == {Node("paragraph", <<>>, <<>>), Node("paragraph", <<>>, <<Text(<<"Done">>)>>)}
ListItems ==
  {Node("listItem", <<>>, <<Text(<<"A">>)>>), Node("listItem", <<>>, <<Text(<<"B">>)>>)}
BulletLists == {Node("bulletList", <<>>, c) : c \in SeqsOf(ListItems, 1, MaxItems)}
\* a list as the tracker's editor builds it: the item holds a paragraph
EditorList ==
  Node("bulletList", <<>>,
       <<Node("listItem", <<>>, <<Node("paragraph", <<>>, <<Text(<<"A">>)>>)>>)>>)
Blocks == Paragraphs \cup BulletLists \cup {EditorList}
Docs == {Node("doc", <<>>, c) : c \in SeqsOf(Blocks, 0, MaxBlocks)}

EmptyDoc == Node("doc", <<>>, <<>>)
Description(kind, text, node) == [kind |-> kind, text |-> text, node |-> node]
UndefinedDescription == Description("undefined", <<>>, EmptyDoc)
NullDescription == Description("null", <<>>, EmptyDoc)
StringDescription == Description("string", <<"Button is added">>, EmptyDoc)

Descriptions ==
  {UndefinedDescription, NullDescription, StringDescription}
  \cup {Description("object", <<>>, d) : d \in Docs}

NoParent == [given |-> FALSE, key |-> <<>>]
ParentLinks == {NoParent, [given |-> TRUE, key |-> <<"PROJ", "-", "1", "0", "0">>]}

Fields(summary, description, parent) ==
  [summary |-> summary, description |-> description, parent |-> parent]

NoFields == Fields(<<>>, UndefinedDescription, NoParent)

FetchThrew == [reached |-> FALSE, ok |-> FALSE, statusText |-> <<>>, fields |-> NoFields]
NotOk(statusText) ==
  [reached |-> TRUE, ok |-> FALSE, statusText |-> statusText, fields |-> NoFields]
Issue(fields) == [reached |-> TRUE, ok |-> TRUE, statusText |-> <<"OK">>, fields |-> fields]

Trackers ==
  {FetchThrew, NotOk(<<"Not Found">>), NotOk(<<"Unauthorized">>)}
  \cup {Issue(Fields(<<"Add button">>, d, NoParent)) : d \in Descriptions}
  \cup {Issue(Fields(<<"Add button">>, d, pl)) :
          d \in {UndefinedDescription, NullDescription, StringDescription},
          pl \in ParentLinks}

FewTrackers ==
  {FetchThrew, NotOk(<<"Not Found">>),
   Issue(Fields(<<"Add button">>, StringDescription, NoParent))}

Unset == Null
EnvValues(v) == {Unset, Some(<<>>), Some(v)}

Environments ==
  {[JIRA_DOMAIN |-> d, JIRA_EMAIL |-> e, JIRA_API_TOKEN |-> k] :
     d \in EnvValues(<<"acme.atlassian.net">>), e \in EnvValues(<<"dev@acme.test">>),
     k \in EnvValues(<<"s3cr3t">>)}

FullEnvironment ==
  [JIRA_DOMAIN |-> Some(<<"acme.atlassian.net">>), JIRA_EMAIL |-> Some(<<"dev@acme.test">>),
   JIRA_API_TOKEN |-> Some(<<"s3cr3t">>)]

PROJ123 == <<"P", "R", "O", "J", "-", "1", "2", "3">>
TicketIds == {PROJ123, <<"n", "o", "n", "e">>}

JiraBody(action, ticketId) == [json |-> TRUE, action |-> action, ticketId |-> ticketId]

JiraCall(body, env, tracker) ==
  [endpoint |-> "jira", body |-> body, env |-> env, tracker |-> tracker]

\* The POSTs to /api/jira that are modelled: every environment against a few
\* tracker answers, and every tracker answer under a full environment.
JiraCalls ==
  {JiraCall(JiraBody(<<"getTicket">>, id), env, tr) :
     id \in TicketIds, env \in Environments, tr \in FewTrackers}
  \cup
  {JiraCall(JiraBody(<<"getTicket">>, PROJ123), FullEnvironment, tr) : tr \in Trackers}
  \cup
  {JiraCall(JiraBody(a, PROJ123), env, tr) :
     a \in UnknownActions, env \in {FullEnvironment}, tr \in FewTrackers}
  \cup
  {JiraCall(MalformedBody, FullEnvironment, FetchThrew)}

(***************************************************************************)
(* The llm route  (src/app/api/llm/route.ts)                               *)
(***************************************************************************)
Indent6 == "      "

systemPrompt ==
  <<LF,
    Indent6, "You are supposed to validate and verify whether the provided git differences conform to the provided Jira ticket description.", LF,
    Indent6, "Do not send summaries back, only provide feedback on the diff whether there are any changes required.", LF,
    Indent6, "If no changes are required, just say that.", LF,
    Indent6, "Only note the AC points and whether they are conformed, by prefixed with checkboxes and the reasoning why it does or doesn't conform.", LF,
    "    ">>

UserPromptHead ==
  <<LF,
    Indent6, "I have a Jira ticket below. Could you tell me whether the implementation conforms to the description, and if not, what needs to be changed?", LF,
    LF,
    Indent6, "The ticket:", LF,
    Indent6, Fence, "plaintext", LF,
    Indent6>>

UserPromptMiddle ==
  <<LF,
    Indent6, Fence, LF,
    LF,
    Indent6, "The git diff:", LF,
    Indent6, Fence, "plaintext", LF,
    Indent6>>

UserPromptTail ==
  <<LF,
    Indent6, Fence, LF,
    "    ">>

\* the template with the two texts the other way round
userPrompt_Swapped(ticketDescription, gitDiff) ==
  UserPromptHead \o gitDiff \o UserPromptMiddle \o ticketDescription \o UserPromptTail

userPrompt(ticketDescription, gitDiff) ==
  UserPromptHead \o ticketDescription \o UserPromptMiddle \o gitDiff \o UserPromptTail

ModelName == <<"gpt-4.1-mini-2025-04-14">>
MaxTokens == 10000
Temperature == <<"0.7">>

\* the argument of generateText
GenerateTextCall(ticketDescription, gitDiff) ==
  [model |-> ModelName, maxTokens |-> MaxTokens,
   messages |-> <<[role |-> "system", content |-> systemPrompt],
                  [role |-> "user", content |-> userPrompt(ticketDescription, gitDiff)]>>,
   temperature |-> Temperature]

ErrorValidatingDiff == "Error validating diff: "

\* the function without its try/catch
validateDiffAgainstTicket_NoCatch(ticketDescription, gitDiff, llm) ==
  LET calls == <<GenerateTextCall(ticketDescription, gitDiff)>>
  IN  IF llm.ok THEN Return(llm.text, calls) ELSE Throw(llm.message, calls)

\* llm is what generateText does: it resolves with {text}, or it rejects with
\* an Error (isError) or with another value, of which message is the message
\* or the string form
validateDiffAgainstTicket(ticketDescription, gitDiff, llm) ==
  LET calls == <<GenerateTextCall(ticketDescription, gitDiff)>>
  IN  IF llm.ok THEN Return(llm.text, calls)
      ELSE Return(<<ErrorValidatingDiff>> \o llm.message, calls)

POST_llm(body, llm) ==
  IF ~body.json
  THEN [response |-> ErrorResponse(<<"SyntaxError: ">> \o body.message, StatusServerError),
        execs |-> <<>>]
  ELSE IF body.action = <<"validateDiffAgainstTicket">>
       THEN LET r == validateDiffAgainstTicket(body.ticketDescription, body.gitDiff, llm)
            IN  IF r.threw
                THEN [response |-> ErrorResponse(ErrorToString(r.error), StatusServerError),
                      execs |-> r.execs]
                ELSE [response |-> DataResponse(r.ret), execs |-> r.execs]
       ELSE [response |-> ErrorResponse(InvalidAction, StatusBadRequest), execs |-> <<>>]

(***************************************************************************)
(* Inputs of the llm route                                                 *)
(***************************************************************************)
TicketTexts ==
  { <<>>,
    <<"Button is added">>,
    <<LF, "Done", LF>>,
    <<"Example:", LF, Fence, LF, "npm test", LF, Fence>> }

Completed(text) == [ok |-> TRUE, text |-> text, isError |-> FALSE, message |-> <<>>]
Rejected(isError, message) ==
  [ok |-> FALSE, text |-> <<>>, isError |-> isError, message |-> message]

ModelOutcomes ==
  { Completed(<<"- [x] Button is added: the diff adds it.">>),
    Completed(<<>>),
    Rejected(TRUE, <<"OpenAI API key is missing.">>),
    Rejected(TRUE, <<"Too Many Requests">>),
    Rejected(FALSE, <<"timeout">>) }

LlmBody(action, ticketDescription, gitDiff) ==
  [json |-> TRUE, action |-> action, ticketDescription |-> ticketDescription,
   gitDiff |-> gitDiff]

LlmCall(body, llm) == [endpoint |-> "llm", body |-> body, llm |-> llm]

LlmCalls ==
  {LlmCall(LlmBody(<<"validateDiffAgainstTicket">>, td, d), m) :
     td \in TicketTexts, d \in DiffTexts, m \in ModelOutcomes}
  \cup
  {LlmCall(LlmBody(a, td, d), m) :
     a \in UnknownActions, td \in {<<"Button is added">>}, d \in DiffTexts,
     m \in ModelOutcomes}
  \cup
  {LlmCall(MalformedBody, Completed(<<>>))}

(***************************************************************************)
(* Ticket-ID inference of the page  (src/app/page.tsx)                     *)
(***************************************************************************)
Digits == {"0", "1", "2", "3", "4", "5", "6", "7", "8", "9"}
Letters ==
  {"a", "b", "c", "d", "e", "f", "g", "h", "i", "j", "k", "l", "m", "n", "o", "p", "q",
   "r", "s", "t", "u", "v", "w", "x", "y", "z",
   "A", "B", "C", "D", "E", "F", "G", "H", "I", "J", "K", "L", "M", "N", "O", "P", "Q",
   "R", "S", "T", "U", "V", "W", "X", "Y", "Z"}
\* the class \w
WordChars == Letters \cup Digits \cup {"_"}

\* a character class: the characters of a set, or with inverted = TRUE all others
InClass(c, chars, inverted) == (c \in chars) # inverted

\* the last index of the longest run of characters from index i on that are
\* in the class (i - 1 if there is none): a greedy  class+  at i
RunEnd(s, i, chars, inverted) ==
  CHOOSE j \in (i - 1)..Len(s) :
    /\ \A k \in i..j : InClass(s[k], chars, inverted)
    /\ j = Len(s) \/ ~InClass(s[j + 1], chars, inverted)

\* the places where (?:\w+\/)* can end, in the order of its iterations: after
\* 0, 1, 2, ... prefixes.  A prefix is a maximal run of word characters
\* followed by '/'.
RECURSIVE PrefixEnds(_, _)
PrefixEnds(s, i) ==
  LET e == RunEnd(s, i + 1, WordChars, FALSE)
  IN  IF e >= i + 1 /\ e < Len(s) /\ s[e + 1] = "/"
      THEN <<i>> \o PrefixEnds(s, e + 1)
      ELSE <<i>>

NoMatch == [matched |-> FALSE, groups |-> << <<>>, <<>> >>]

\* ([^-]+)-(\d+) tried right after index i: both runs are greedy, and giving
\* back characters of the first run never helps, since '-' must follow it
KeyAndNumberAt(s, i) ==
  LET k == RunEnd(s, i + 1, {"-"}, TRUE)
      d == RunEnd(s, k + 2, Digits, FALSE)
  IN  IF k >= i + 1 /\ k < Len(s) /\ s[k + 1] = "-" /\ d >= k + 2
      THEN [matched |-> TRUE, groups |-> <<SubSeq(s, i + 1, k), SubSeq(s, k + 2, d)>>]
      ELSE NoMatch

\* the backtracking of the greedy star: most iterations first
RECURSIVE FirstMatchFrom(_, _, _)
FirstMatchFrom(s, ends, n) ==
  IF n = 0 THEN NoMatch
  ELSE IF KeyAndNumberAt(s, ends[n]).matched THEN KeyAndNumberAt(s, ends[n])
       ELSE FirstMatchFrom(s, ends, n - 1)

\* /^(?:\w+\/)*([^-]+)-(\d+)/g.exec(branch)
TicketPatternExec(branch) ==
  LET ends == PrefixEnds(branch, 0)
  IN  FirstMatchFrom(branch, ends, Len(ends))

\* matches && matches.length > 2 ? `${matches[1]}-${matches[2]}` : undefined
InferTicketId(branch) ==
  LET matches == TicketPatternExec(branch)
  IN  IF matches.matched THEN Some(matches.groups[1] \o <<"-">> \o matches.groups[2])
      ELSE Null

\* the form state  config  of Home; an unset field is Null
EmptyConfig ==
  [ticketId |-> Null, ticketDescription |-> Null, targetBranch |-> Null,
   workingBranch |-> Null, projectPath |-> Null, projectName |-> Null]

\* setConfig(cfg => ({...cfg, workingBranch, ticketId: cfg.ticketId ?? ticketId}))
setWorkingBranch(cfg, workingBranch) ==
  [cfg EXCEPT !.workingBranch = Some(workingBranch),
              !.ticketId = IF cfg.ticketId.isNull THEN InferTicketId(workingBranch)
                           ELSE cfg.ticketId]

(***************************************************************************)
(* The page's calls to the back end                                        *)
(*                                                                         *)
(* net is what the browser's fetch meets: "ok", the request reaches the    *)
(* route and the route's answer comes back, or "down", fetch rejects.      *)
(* A call yields its result and what the back end did while serving it.    *)
(***************************************************************************)
FailedToFetch == <<"Failed to fetch">>

\* result.error || fallback
ErrorOr(payload, fallback) == IF payload = <<>> THEN fallback ELSE payload

\* the wrapper without its try/catch
getJiraTicket_NoCatch(ticketId, net, env, tracker) ==
  IF net = "down" THEN Throw(FailedToFetch, <<>>)
  ELSE LET r == POST_jira(JiraBody(<<"getTicket">>, ticketId), env, tracker)
       IN  IF r.response.status # StatusOk
           THEN Throw(ErrorOr(r.response.payload, <<"Failed to fetch Jira ticket">>), r.execs)
           ELSE Return(r.response.payload, r.execs)

\* getJiraTicket of the client: the ticket of the route's answer, or null when
\* the request fails or is answered with an error
getJiraTicket(ticketId, net, env, tracker) ==
  IF net = "down" THEN Return(NoTicket, <<>>)
  ELSE LET r == POST_jira(JiraBody(<<"getTicket">>, ticketId), env, tracker)
       IN  IF r.response.status # StatusOk THEN Return(NoTicket, r.execs)
           ELSE Return(r.response.payload, r.execs)

\* validateDiffAgainstTicket of the client
client_validateDiffAgainstTicket(ticketDescription, gitDiff, net, llm) ==
  IF net = "down" THEN Return(<<ErrorValidatingDiff>> \o FailedToFetch, <<>>)
  ELSE LET r == POST_llm(LlmBody(<<"validateDiffAgainstTicket">>, ticketDescription,
                                 gitDiff), llm)
       IN  IF r.response.status # StatusOk
           THEN Return(<<ErrorValidatingDiff>>
                         \o ErrorOr(r.response.payload,
                                    <<"Failed to validate diff against ticket">>),
                       r.execs)
           ELSE Return(r.response.payload, r.execs)

\* The git calls of the client.  net = "down" or an error answer: the call
\* throws (onFailure = "throws") or yields its sentinel (onFailure = "sentinel").
GitCallFailed(sentinel, onFailure, execs) ==
  IF onFailure = "throws" THEN Throw(FailedToFetch, execs) ELSE Return(sentinel, execs)

GitRequest(body, sentinel, net, onFailure, fs, sh) ==
  IF net = "down" THEN GitCallFailed(sentinel, onFailure, <<>>)
  ELSE LET r == POST_git(body, fs, sh)
       IN  IF r.response.status # StatusOk THEN GitCallFailed(sentinel, onFailure, r.execs)
           ELSE Return(r.response.payload, r.execs)

client_getBranches(projectPath, net, onFailure, fs, sh) ==
  GitRequest(GitBody(<<"getBranches">>, projectPath, <<>>, <<>>, NoPatterns), <<>>,
             net, onFailure, fs, sh)

client_getCurrentBranch(projectPath, net, onFailure, fs, sh) ==
  GitRequest(GitBody(<<"getCurrentBranch">>, projectPath, <<>>, <<>>, NoPatterns), Null,
             net, onFailure, fs, sh)

client_getDefaultBranch(projectPath, net, onFailure, fs, sh) ==
  GitRequest(GitBody(<<"getDefaultBranch">>, projectPath, <<>>, <<>>, NoPatterns), Null,
             net, onFailure, fs, sh)

client_getDiff(projectPath, fromBranch, toBranch, net, onFailure, fs, sh) ==
  GitRequest(GitBody(<<"getDiff">>, projectPath, fromBranch, toBranch, NoPatterns), Null,
             net, onFailure, fs, sh)

\* the display name of a path: its last segment
client_getProjectName(projectPath) == basename(projectPath)

(***************************************************************************)
(* The handlers of the page  (src/app/page.tsx)                            *)
(***************************************************************************)
CouldNotFindTicket(ticketId) == <<"Could not find Jira ticket: ">> \o ticketId
ErrorFetchingTicket(message) == <<"Error fetching Jira ticket: ">> \o message

\* desc of fetchJiraTicket, from how getJiraTicket ended
TicketDescriptionOf(ticketId, r) ==
  IF r.threw THEN ErrorFetchingTicket(r.error)
  ELSE IF r.ret.isNull THEN CouldNotFindTicket(ticketId)
  ELSE r.ret.markdownDescription

\* setConfig(cfg => ({...cfg, ticketDescription: desc, ticketId}))
fetchJiraTicket(cfg, ticketId, r) ==
  [cfg EXCEPT !.ticketDescription = Some(TicketDescriptionOf(ticketId, r)),
              !.ticketId = Some(ticketId)]

\* !path || path.trim().length === 0
BlankPath(path) == Trim(path) = <<>>

\* ticketId ?? config.ticketId ?? undefined, with the ID inferred from the
\* current branch (none for a null or empty branch name)
NewTicketId(currentWorkingBranch, closureTicketId) ==
  LET ticketId == IF Falsy(currentWorkingBranch) THEN Null
                  ELSE InferTicketId(currentWorkingBranch.val)
  IN  IF ticketId.isNull THEN closureTicketId ELSE ticketId

\* the setConfig of handleProjectSelect
ProjectSelected(cfg, path, name, currentWorkingBranch, defaultBranch, newTicketId) ==
  [cfg EXCEPT !.projectPath = Some(path),
              !.projectName = Some(name),
              !.workingBranch = currentWorkingBranch,
              !.targetBranch = IF cfg.targetBranch.isNull THEN defaultBranch
                               ELSE cfg.targetBranch,
              !.ticketId = newTicketId]

\* setConfig(cfg => ({...cfg, ticketId}))
handleJiraTicketChange(cfg, ticketId) == [cfg EXCEPT !.ticketId = Some(ticketId)]

\* setConfig(cfg => ({...cfg, targetBranch}))
setTargetBranch(cfg, targetBranch) == [cfg EXCEPT !.targetBranch = Some(targetBranch)]

SelectProjectFirst == <<"Please select a project and branches to compare.">>
NoTicketDescription == <<"No Jira ticket description available.">>
NoDifferences == <<"No differences found between the selected branches.">>

\* the message of an early return of handleValidate, or null when the
\* validation starts
ValidateRefusal(cfg) ==
  IF Falsy(cfg.projectPath) \/ Falsy(cfg.workingBranch) \/ Falsy(cfg.targetBranch)
  THEN Some(SelectProjectFirst)
  ELSE IF Falsy(cfg.ticketDescription) THEN Some(NoTicketDescription)
  ELSE Null

\* the disabled attribute of the Validate button
ValidateDisabled(cfg, loading) ==
  loading \/ Falsy(cfg.targetBranch) \/ Falsy(cfg.workingBranch)
    \/ Falsy(cfg.ticketDescription)

\* what handleValidate does after the diff call ended with diff: it is done
\* (with the result shown and isLoading false), or it calls the model
AfterDiff(cfg, diff) ==
  IF diff.threw
  THEN [done |-> TRUE, validationResult |-> <<ErrorValidatingDiff>> \o diff.error,
        isLoading |-> FALSE, ticketDescription |-> <<>>, gitDiff |-> <<>>]
  ELSE IF Falsy(diff.ret)
  THEN [done |-> TRUE, validationResult |-> NoDifferences,
        isLoading |-> FALSE, ticketDescription |-> <<>>, gitDiff |-> <<>>]
  ELSE [done |-> FALSE, validationResult |-> <<>>, isLoading |-> TRUE,
        ticketDescription |-> cfg.ticketDescription.val, gitDiff |-> diff.ret.val]

\* the handler without its finally
AfterModel_NoFinally(result) ==
  IF result.threw
  THEN [validationResult |-> <<ErrorValidatingDiff>> \o result.error, isLoading |-> TRUE]
  ELSE [validationResult |-> result.ret, isLoading |-> TRUE]

\* what handleValidate does after the model call ended with result
AfterModel(result) ==
  IF result.threw
  THEN [validationResult |-> <<ErrorValidatingDiff>> \o result.error, isLoading |-> FALSE]
  ELSE [validationResult |-> result.ret, isLoading |-> FALSE]

\* the diff call of handleValidate: from the target branch to the working branch
DiffCall_Reversed(cfg) ==
  [projectPath |-> cfg.projectPath.val, fromBranch |-> cfg.workingBranch.val,
   toBranch |-> cfg.targetBranch.val]

DiffCall(cfg) ==
  [projectPath |-> cfg.projectPath.val, fromBranch |-> cfg.targetBranch.val,
   toBranch |-> cfg.workingBranch.val]

\* the diff call of handleValidate against the world w
DiffOutcome(cfg, w) ==
  client_getDiff(DiffCall(cfg).projectPath, DiffCall(cfg).fromBranch, DiffCall(cfg).toBranch,
                 w.gitnet, w.onFailure, w.fs, w.sh)

\* the model call of handleValidate against the world w
ModelOutcome(cfg, diff, w) ==
  client_validateDiffAgainstTicket(AfterDiff(cfg, diff).ticketDescription,
                                   AfterDiff(cfg, diff).gitDiff, w.llmnet, w.llm)

\* handleValidate from the click to its end: the result shown, isLoading at
\* the end, the calls made to the back end and what the back end did.  diff
\* and result are how the diff call and the model call end when they are made.
handleValidate(cfg, loading, diff, result) ==
  IF ~ValidateRefusal(cfg).isNull
  THEN [validationResult |-> ValidateRefusal(cfg).val, isLoading |-> loading,
        calls |-> <<>>, execs |-> <<>>, modelCalls |-> <<>>]
  ELSE IF AfterDiff(cfg, diff).done
  THEN [validationResult |-> AfterDiff(cfg, diff).validationResult,
        isLoading |-> AfterDiff(cfg, diff).isLoading,
        calls |-> <<"getDiff">>, execs |-> diff.execs, modelCalls |-> <<>>]
  ELSE [validationResult |-> AfterModel(result).validationResult,
        isLoading |-> AfterModel(result).isLoading,
        calls |-> <<"getDiff", "validateDiffAgainstTicket">>,
        execs |-> diff.execs, modelCalls |-> result.execs]

(***************************************************************************)
(* Inputs of the branch selection                                          *)
(***************************************************************************)
\* one character of each kind the pattern tells apart
PatternAlphabet == {"P", "1", "/", "-", "."}

userBranch == <<"j", ".", "d", "o", "e", "/", "P", "R", "O", "J", "-", "1", "2">>

WorkingBranches ==
  SeqsOf(PatternAlphabet, 1, MaxNameLen) \cup BranchNames \cup {userBranch}

PageCall(workingBranch, cfg) ==
  [endpoint |-> "page", workingBranch |-> workingBranch, config |-> cfg]

PageCalls ==
  {PageCall(b, cfg) :
     b \in WorkingBranches,
     cfg \in {EmptyConfig, [EmptyConfig EXCEPT !.ticketId = Some(<<"O", "P", "S", "-", "7">>)]}}

(***************************************************************************)
(* Inputs of the ticket fetch and of the validation of the page            *)
(***************************************************************************)
Networks == {"ok", "down"}

PageEnvironments ==
  {FullEnvironment, [FullEnvironment EXCEPT !.JIRA_API_TOKEN = Unset],
   [FullEnvironment EXCEPT !.JIRA_DOMAIN = Some(<<>>)]}

PageTrackers ==
  FewTrackers
  \cup {NotOk(<<"Unauthorized">>), NotOk(<<"Internal Server Error">>),
        Issue(Fields(<<"Add button">>, NullDescription, NoParent)),
        Issue(Fields(<<"Add button">>, Description("object", <<>>, EmptyDoc), NoParent))}

OPS7 == <<"O", "P", "S", "-", "7">>

TicketFetchCall(ticketId, net, env, tracker, cfg) ==
  [endpoint |-> "fetchJiraTicket", ticketId |-> ticketId, net |-> net, env |-> env,
   tracker |-> tracker, config |-> cfg]

\* fetchJiraTicket started for a ticket ID, on an empty form and on a form that
\* shows another ticket
TicketFetchCalls ==
  {TicketFetchCall(id, net, env, tr, cfg) :
     id \in {PROJ123, OPS7}, net \in Networks, env \in PageEnvironments,
     tr \in PageTrackers,
     cfg \in {EmptyConfig,
              [EmptyConfig EXCEPT !.ticketId = Some(PROJ123),
                                  !.ticketDescription = Some(<<"Button is added">>)]}}

FormValues(v) == {Null, Some(<<>>), Some(v)}

\* form states at the click, with every field unset, empty or filled
ValidateConfigs ==
  {[EmptyConfig EXCEPT !.projectPath = p, !.workingBranch = wb, !.targetBranch = tb,
                       !.ticketDescription = td] :
     p \in FormValues(RepoPath), wb \in FormValues(featureBranch),
     tb \in FormValues(develop),
     td \in FormValues(<<"Button is added">>) \cup {Some(CouldNotFindTicket(PROJ123))}}

ValidateWorld(gitnet, onFailure, fs, diff, llmnet, llm) ==
  [gitnet |-> gitnet, onFailure |-> onFailure, fs |-> fs,
   sh |-> [NotRun EXCEPT !.diff = diff], llmnet |-> llmnet, llm |-> llm]

ValidateWorlds ==
  {ValidateWorld(gitnet, onFailure, fs, diff, llmnet, llm) :
     gitnet \in Networks, onFailure \in {"throws", "sentinel"},
     fs \in FileSystems(RepoPath), diff \in GitDiffOutcomes,
     llmnet \in Networks,
     llm \in {Completed(<<"- [x] Button is added: the diff adds it.">>), Completed(<<>>),
              Rejected(TRUE, <<"Too Many Requests">>)}}

QuietWorld ==
  ValidateWorld("ok", "throws", {RepoPath}, Printed(<<>>), "ok", Completed(<<>>))

Complete(cfg) == ValidateRefusal(cfg).isNull

ValidateCall(cfg, w) == [endpoint |-> "handleValidate", config |-> cfg, world |-> w]

\* handleValidate on every form state; the world is varied where the handler
\* reaches it
ValidateCalls ==
  {ValidateCall(cfg, QuietWorld) : cfg \in ValidateConfigs}
  \cup {ValidateCall(cfg, w) : cfg \in {c \in ValidateConfigs : Complete(c)},
                               w \in ValidateWorlds}

(***************************************************************************)
(* State: the request being served (its body and the outside world it      *)
(* meets), the response, and what the handler did to the outside world     *)
(* while serving it; and the form state of the page.                       *)
(***************************************************************************)
VARIABLES call, response, execLog, fetchLog, modelLog, config,
          branches, validationResult, isLoading, runs, outstanding,
          lastPath, lastTicketId, lastFetch

\* the rest of the page: the branch list, the result shown, the loading flag,
\* the handler runs that were started and their calls that have not returned,
\* and what the user asked for last
pageVars ==
  <<branches, validationResult, isLoading, runs, outstanding, lastPath, lastTicketId,
    lastFetch>>

vars == <<call, response, execLog, fetchLog, modelLog, config, pageVars>>

Pending == [status |-> 0, kind |-> "pending", payload |-> <<>>]

Calls ==
  GitCalls \cup JiraCalls \cup LlmCalls \cup PageCalls \cup TicketFetchCalls
    \cup ValidateCalls

\* no ticket was fetched yet
NoFetch == Null

\* Home before any event: useState({}), useState([]), useState(''), useState(false)
FreshPage ==
  /\ branches = <<>>
  /\ validationResult = <<>>
  /\ isLoading = FALSE
  /\ runs = <<>>
  /\ outstanding = {}
  /\ lastPath = Null
  /\ lastTicketId = Null
  /\ lastFetch = NoFetch

Init ==
  /\ call \in Calls
  /\ response = Pending
  /\ execLog = <<>>
  /\ fetchLog = <<>>
  /\ modelLog = <<>>
  /\ config = IF call.endpoint \in {"page", "fetchJiraTicket", "handleValidate"}
              THEN call.config ELSE EmptyConfig
  /\ FreshPage

\* One POST to /api/git, served from the request to the response
PostGit ==
  /\ call.endpoint = "git"
  /\ response = Pending
  /\ LET r == POST_git(call.body, call.fs, call.sh)
     IN  /\ response' = r.response
         /\ execLog' = r.execs
  /\ UNCHANGED <<call, fetchLog, modelLog, config, pageVars>>

\* One POST to /api/jira, served from the request to the response
PostJira ==
  /\ call.endpoint = "jira"
  /\ response = Pending
  /\ LET r == POST_jira(call.body, call.env, call.tracker)
     IN  /\ response' = r.response
         /\ fetchLog' = r.execs
  /\ UNCHANGED <<call, execLog, modelLog, config, pageVars>>

\* One POST to /api/llm, served from the request to the response
PostLlm ==
  /\ call.endpoint = "llm"
  /\ response = Pending
  /\ LET r == POST_llm(call.body, call.llm)
     IN  /\ response' = r.response
         /\ modelLog' = r.execs
  /\ UNCHANGED <<call, execLog, fetchLog, config, pageVars>>

\* the event handler of the page has run; payload lists the calls it made to
\* the back end
Handled == [status |-> 0, kind |-> "handled", payload |-> <<>>]

\* The working-branch selector of the page calls setWorkingBranch
SetWorkingBranch ==
  /\ call.endpoint = "page"
  /\ response = Pending
  /\ config' = setWorkingBranch(config, call.workingBranch)
  /\ response' = Handled
  /\ UNCHANGED <<call, execLog, fetchLog, modelLog, pageVars>>

\* fetchJiraTicket from its call to its end
FetchJiraTicket ==
  /\ call.endpoint = "fetchJiraTicket"
  /\ response = Pending
  /\ LET r == getJiraTicket(call.ticketId, call.net, call.env, call.tracker)
     IN  /\ config' = fetchJiraTicket(config, call.ticketId, r)
         /\ fetchLog' = r.execs
  /\ response' = Handled
  /\ UNCHANGED <<call, execLog, modelLog, pageVars>>

\* handleValidate from the click to its end
HandleValidate ==
  /\ call.endpoint = "handleValidate"
  /\ response = Pending
  /\ \E diff \in {DiffOutcome(config, call.world)} :
       \E result \in {ModelOutcome(config, diff, call.world)} :
         \E h \in {handleValidate(config, isLoading, diff, result)} :
           /\ validationResult' = h.validationResult
           /\ isLoading' = h.isLoading
           /\ execLog' = h.execs
           /\ modelLog' = h.modelCalls
           /\ response' = [Handled EXCEPT !.payload = h.calls]
  /\ UNCHANGED <<call, fetchLog, config, branches, runs, outstanding, lastPath,
                 lastTicketId, lastFetch>>

Next == PostGit \/ PostJira \/ PostLlm \/ SetWorkingBranch \/ FetchJiraTicket
          \/ HandleValidate

Spec == Init /\ [][Next]_vars

(***************************************************************************)
(* The page as a whole: the user's events and the handlers they start.     *)
(* A handler runs from an event to its first await and then from the       *)
(* return of the awaited call to its next await; the runs of several       *)
(* handlers interleave at their awaits.  Nothing cancels a run.            *)
(***************************************************************************)
MaxRuns == 2

Range(s) == {s[k] : k \in DOMAIN s}

\* what the user enters in the path field: nothing, or the path of the
\* repository
PagePaths == {<<>>, RepoPath}

\* the ticket IDs the user types
TypedIds == {OPS7}

\* the machine the back end runs on: the repository, on a feature branch that
\* has changes
PageFs == {RepoPath}

PageBranches == <<develop, featureBranch>>

PageSh ==
  [branch |-> Printed(BranchOutput(PageBranches, 2)),
   current |-> Printed(featureBranch \o <<LF>>),
   remote |-> Threw,
   diff |-> Printed(<<"diff --git a/src/a.ts b/src/a.ts", LF, "+const a = 1;", LF>>)]

\* how a git call of handleProjectSelect can end: answered, or failed with a
\* throw
GitNetworks ==
  {[net |-> "ok", onFailure |-> "throws"], [net |-> "down", onFailure |-> "throws"]}

\* how the diff call can end: answered, or failed with a throw or with null
DiffNetworks == GitNetworks \cup {[net |-> "down", onFailure |-> "sentinel"]}

\* what a ticket fetch of the page can meet: the ticket, no such ticket, no
\* network
TicketWorlds ==
  {[net |-> "ok", env |-> FullEnvironment,
    tracker |-> Issue(Fields(<<"Add button">>, StringDescription, NoParent))],
   [net |-> "ok", env |-> FullEnvironment, tracker |-> NotOk(<<"Not Found">>)],
   [net |-> "down", env |-> FullEnvironment, tracker |-> FetchThrew]}

\* what a model call of the page can meet
ModelWorlds ==
  {[net |-> "ok", llm |-> Completed(<<"- [x] Button is added: the diff adds it.">>)],
   [net |-> "ok", llm |-> Rejected(TRUE, <<"Too Many Requests">>)]}

\* the ticket IDs that the branch names of the repository yield
InferredIds == {InferTicketId(b).val : b \in {x \in Range(PageBranches) :
                                               ~InferTicketId(x).isNull}}

\* a call to the back end that has not returned
Call(run, op, a1, a2, a3) == [run |-> run, op |-> op, args |-> <<a1, a2, a3>>]

\* a run of a handler: where it waits (pc), its locals, the config of the
\* render it was created in (closure), and the calls it has issued
Run(handler, pc, path, closure, ticketId) ==
  [handler |-> handler, pc |-> pc, path |-> path, currentWorkingBranch |-> Null,
   closure |-> closure, ticketId |-> ticketId, issued |-> <<>>]

\* a run that has ended
Ended == Run("none", "done", <<>>, EmptyConfig, <<>>)

\* what a handler reads of the config of its render: handleProjectSelect the
\* ticket ID, handleValidate the ticket description
TicketIdOf(cfg) == [EmptyConfig EXCEPT !.ticketId = cfg.ticketId]
DescriptionOf(cfg) == [EmptyConfig EXCEPT !.ticketDescription = cfg.ticketDescription]

Ops(calls) == [k \in DOMAIN calls |-> calls[k].op]

\* run i goes on to state run and issues calls
Continue(i, run, calls) ==
  [runs EXCEPT ![i] = [run EXCEPT !.issued = run.issued \o Ops(calls)]]

Waiting(i, op) ==
  /\ i \in DOMAIN runs
  /\ runs[i].pc = op
  /\ \E c \in outstanding : c.run = i /\ c.op = op

TheCall(i, op) == CHOOSE c \in outstanding : c.run = i /\ c.op = op

Returned(i, op, calls) == (outstanding \ {TheCall(i, op)}) \cup Range(calls)

PageInit ==
  /\ call = [endpoint |-> "browser"]
  /\ response = Pending
  /\ execLog = <<>>
  /\ fetchLog = <<>>
  /\ modelLog = <<>>
  /\ config = EmptyConfig
  /\ FreshPage

backend == <<call, response, execLog, fetchLog, modelLog>>

\* the calls handleProjectSelect issues at its start, after getBranches and
\* after getCurrentBranch
FirstGitCall(i, path) == <<Call(i, "getBranches", path, <<>>, <<>>)>>

SecondGitCall_Parallel(i, path) ==
  <<Call(i, "getCurrentBranch", path, <<>>, <<>>),
    Call(i, "getDefaultBranch", path, <<>>, <<>>)>>

SecondGitCall(i, path) == <<Call(i, "getCurrentBranch", path, <<>>, <<>>)>>

ThirdGitCall(i, path) == <<Call(i, "getDefaultBranch", path, <<>>, <<>>)>>

TicketCall(i, ticketId) == <<Call(i, "getJiraTicket", ticketId, <<>>, <<>>)>>

\* onChange of the path field: handleProjectSelect up to its first await
SelectProject ==
  \E path \in PagePaths :
    /\ lastPath' = Some(path)
    /\ IF BlankPath(path)
       THEN /\ config' = EmptyConfig
            /\ branches' = <<>>
            /\ validationResult' = <<>>
            /\ lastTicketId' = Null
            /\ lastFetch' = NoFetch
            /\ UNCHANGED <<runs, outstanding>>
       ELSE /\ Len(runs) < MaxRuns
            /\ LET i == Len(runs) + 1
                   calls == FirstGitCall(i, path)
               IN  /\ runs' = Append(runs, [Run("handleProjectSelect", "getBranches", path,
                                                TicketIdOf(config), <<>>)
                                              EXCEPT !.issued = Ops(calls)])
                   /\ outstanding' = outstanding \cup Range(calls)
            /\ UNCHANGED <<config, branches, validationResult, lastTicketId, lastFetch>>
    /\ UNCHANGED <<backend, isLoading>>

\* getBranches returns to handleProjectSelect
ReturnGetBranches ==
  \E i \in DOMAIN runs, n \in GitNetworks :
    /\ Waiting(i, "getBranches")
    /\ \E r \in {client_getBranches(runs[i].path, n.net, n.onFailure, PageFs, PageSh)} :
         IF r.threw
         THEN /\ runs' = Continue(i, Ended, <<>>)
              /\ outstanding' = Returned(i, "getBranches", <<>>)
              /\ UNCHANGED branches
         ELSE LET calls == SecondGitCall(i, runs[i].path)
              IN  /\ branches' = r.ret
                  /\ runs' = Continue(i, [runs[i] EXCEPT !.pc = "getCurrentBranch"], calls)
                  /\ outstanding' = Returned(i, "getBranches", calls)
    /\ UNCHANGED <<backend, config, validationResult, isLoading, lastPath, lastTicketId,
                   lastFetch>>

\* getCurrentBranch returns to handleProjectSelect
ReturnGetCurrentBranch ==
  \E i \in DOMAIN runs, n \in GitNetworks :
    /\ Waiting(i, "getCurrentBranch")
    /\ \E r \in {client_getCurrentBranch(runs[i].path, n.net, n.onFailure, PageFs, PageSh)} :
         IF r.threw
         THEN /\ runs' = Continue(i, Ended, <<>>)
              /\ outstanding' = Returned(i, "getCurrentBranch", <<>>)
         ELSE LET calls == ThirdGitCall(i, runs[i].path)
              IN  /\ runs' = Continue(i, [runs[i] EXCEPT !.pc = "getDefaultBranch",
                                                        !.currentWorkingBranch = r.ret],
                                      calls)
                  /\ outstanding' = Returned(i, "getCurrentBranch", calls)
    /\ UNCHANGED <<backend, config, branches, validationResult, isLoading, lastPath,
                   lastTicketId, lastFetch>>


\* getDefaultBranch returns to handleProjectSelect: the form is filled and the
\* ticket fetch starts if a ticket ID is known
ReturnGetDefaultBranch ==
  \E i \in DOMAIN runs, n \in GitNetworks :
    /\ Waiting(i, "getDefaultBranch")
    /\ \E r \in {client_getDefaultBranch(runs[i].path, n.net, n.onFailure, PageFs, PageSh)} :
         IF r.threw
         THEN /\ runs' = Continue(i, Ended, <<>>)
              /\ outstanding' = Returned(i, "getDefaultBranch", <<>>)
              /\ UNCHANGED <<config, lastTicketId, lastFetch>>
         ELSE \E newTicketId \in {NewTicketId(runs[i].currentWorkingBranch,
                                              runs[i].closure.ticketId)} :
                /\ config' = ProjectSelected(config, runs[i].path,
                                             client_getProjectName(runs[i].path),
                                             runs[i].currentWorkingBranch, r.ret,
                                             newTicketId)
                /\ lastTicketId' =
                     IF newTicketId # runs[i].closure.ticketId THEN newTicketId
                     ELSE lastTicketId
                /\ IF Falsy(newTicketId)
                   THEN /\ runs' = Continue(i, Ended, <<>>)
                        /\ outstanding' = Returned(i, "getDefaultBranch", <<>>)
                        /\ UNCHANGED lastFetch
                   ELSE LET calls == TicketCall(i, newTicketId.val)
                        IN  /\ runs' = Continue(i, [runs[i] EXCEPT
                                                      !.pc = "getJiraTicket",
                                                      !.ticketId = newTicketId.val],
                                                calls)
                            /\ outstanding' = Returned(i, "getDefaultBranch", calls)
                            /\ lastFetch' = newTicketId
    /\ UNCHANGED <<backend, branches, validationResult, isLoading, lastPath>>

\* onChange of the ticket field
ChangeTicket ==
  \E ticketId \in TypedIds :
    /\ config' = handleJiraTicketChange(config, ticketId)
    /\ lastTicketId' = Some(ticketId)
    /\ UNCHANGED <<backend, branches, validationResult, isLoading, runs, outstanding,
                   lastPath, lastFetch>>

\* onBlur of the ticket field: handleJiraTicketBlur up to its await
BlurTicket ==
  /\ ~Falsy(config.ticketId)
  /\ Len(runs) < MaxRuns
  /\ LET i == Len(runs) + 1
         calls == TicketCall(i, config.ticketId.val)
     IN  /\ runs' = Append(runs, [Run("handleJiraTicketBlur", "getJiraTicket", <<>>,
                                      EmptyConfig, config.ticketId.val)
                                    EXCEPT !.issued = Ops(calls)])
         /\ outstanding' = outstanding \cup Range(calls)
         /\ lastFetch' = config.ticketId
  /\ UNCHANGED <<backend, config, branches, validationResult, isLoading, lastPath,
                 lastTicketId>>

\* getJiraTicket returns to fetchJiraTicket, called by handleProjectSelect or
\* by handleJiraTicketBlur
ReturnGetJiraTicket ==
  \E i \in DOMAIN runs, w \in TicketWorlds :
    /\ Waiting(i, "getJiraTicket")
    /\ \E r \in {getJiraTicket(runs[i].ticketId, w.net, w.env, w.tracker)} :
         config' = fetchJiraTicket(config, runs[i].ticketId, r)
    /\ runs' = Continue(i, Ended, <<>>)
    /\ outstanding' = Returned(i, "getJiraTicket", <<>>)
    /\ UNCHANGED <<backend, branches, validationResult, isLoading, lastPath, lastTicketId,
                   lastFetch>>

\* the branch selectors are shown once a project name is set
SelectorsShown == ~Falsy(config.projectName)

\* a branch is picked in the base-branch selector
SelectTargetBranch ==
  \E b \in Range(branches) :
    /\ SelectorsShown
    /\ config' = setTargetBranch(config, b)
    /\ UNCHANGED <<backend, branches, validationResult, isLoading, runs, outstanding,
                   lastPath, lastTicketId, lastFetch>>

\* a branch is picked in the working-branch selector
SelectWorkingBranch ==
  \E b \in Range(branches) :
    /\ SelectorsShown
    /\ config' = setWorkingBranch(config, b)
    /\ lastTicketId' = IF config.ticketId.isNull THEN InferTicketId(b) ELSE lastTicketId
    /\ UNCHANGED <<backend, branches, validationResult, isLoading, runs, outstanding,
                   lastPath, lastFetch>>

\* the Validate button is shown with the project name and can be clicked
\* unless it is disabled
ValidateClickable == SelectorsShown /\ ~ValidateDisabled(config, isLoading)

\* onClick of the Validate button: handleValidate up to its first await
ClickValidate ==
  /\ ValidateClickable
  /\ Len(runs) < MaxRuns
  /\ IF ~ValidateRefusal(config).isNull
     THEN /\ validationResult' = ValidateRefusal(config).val
          /\ UNCHANGED <<isLoading, runs, outstanding>>
     ELSE LET i == Len(runs) + 1
              calls == <<Call(i, "getDiff", DiffCall(config).projectPath,
                              DiffCall(config).fromBranch, DiffCall(config).toBranch)>>
          IN  /\ isLoading' = TRUE
              /\ runs' = Append(runs, [Run("handleValidate", "getDiff",
                                           config.projectPath.val,
                                           DescriptionOf(config), <<>>)
                                         EXCEPT !.issued = Ops(calls)])
              /\ outstanding' = outstanding \cup Range(calls)
              /\ UNCHANGED validationResult
  /\ UNCHANGED <<backend, config, branches, lastPath, lastTicketId, lastFetch>>

\* getDiff returns to handleValidate
ReturnGetDiff ==
  \E i \in DOMAIN runs, n \in DiffNetworks :
    /\ Waiting(i, "getDiff")
    /\ \E c \in {TheCall(i, "getDiff")} :
       \E diff \in {client_getDiff(c.args[1], c.args[2], c.args[3], n.net, n.onFailure,
                                   PageFs, PageSh)} :
       \E a \in {AfterDiff(runs[i].closure, diff)} :
         /\ isLoading' = a.isLoading
         /\ IF a.done
            THEN /\ validationResult' = a.validationResult
                 /\ runs' = Continue(i, Ended, <<>>)
                 /\ outstanding' = Returned(i, "getDiff", <<>>)
            ELSE LET calls == <<Call(i, "validateDiffAgainstTicket", a.ticketDescription,
                                     a.gitDiff, <<>>)>>
                 IN  /\ runs' = Continue(i, [runs[i] EXCEPT
                                               !.pc = "validateDiffAgainstTicket"], calls)
                     /\ outstanding' = Returned(i, "getDiff", calls)
                     /\ UNCHANGED validationResult
    /\ UNCHANGED <<backend, config, branches, lastPath, lastTicketId, lastFetch>>

\* validateDiffAgainstTicket returns to handleValidate
ReturnValidate ==
  \E i \in DOMAIN runs, w \in ModelWorlds :
    /\ Waiting(i, "validateDiffAgainstTicket")
    /\ \E c \in {TheCall(i, "validateDiffAgainstTicket")} :
       \E result \in {client_validateDiffAgainstTicket(c.args[1], c.args[2], w.net,
                                                       w.llm)} :
       \E a \in {AfterModel(result)} :
         /\ validationResult' = a.validationResult
         /\ isLoading' = a.isLoading
    /\ runs' = Continue(i, Ended, <<>>)
    /\ outstanding' = Returned(i, "validateDiffAgainstTicket", <<>>)
    /\ UNCHANGED <<backend, config, branches, lastPath, lastTicketId, lastFetch>>

\* a call returns to the run that awaits it
ReturnCall ==
  \/ ReturnGetBranches
  \/ ReturnGetCurrentBranch
  \/ ReturnGetDefaultBranch
  \/ ReturnGetJiraTicket
  \/ ReturnGetDiff
  \/ ReturnValidate

PageNext ==
  \/ SelectProject
  \/ ChangeTicket
  \/ BlurTicket
  \/ SelectTargetBranch
  \/ SelectWorkingBranch
  \/ ClickValidate
  \/ ReturnCall

PageSpec == PageInit /\ [][PageNext]_vars

\* a call that was outstanding is no longer: a step of ReturnCall, and only
\* such a step.  The first disjunct, which implies the second, names one
\* state in which the call is gone.
CallReturns ==
  \E c \in outstanding :
    \/ /\ outstanding' = outstanding \ {c}
       /\ UNCHANGED <<backend, config, branches, validationResult, isLoading, runs,
                      lastPath, lastTicketId, lastFetch>>
    \/ c \notin outstanding'

\* every call to the back end returns at some time
PageLive == PageSpec /\ WF_vars(CallReturns)

(***************************************************************************)
(* Properties                                                              *)
(***************************************************************************)
Served == response.kind # "pending"

\* the git route has answered a well-formed request for operation a
GitOp(a) == call.endpoint = "git" /\ call.body.json /\ call.body.action = a /\ Served

PathMissing == call.body.projectPath \notin call.fs

Ran(cmd) == \E i \in 1..Len(execLog) : execLog[i].cmd = cmd

\* the branch list of the repository as the adapter reads it
ListedBranches == IF call.sh.branch.ok THEN ParseBranches(call.sh.branch.out) ELSE <<>>

HasBranch(n) == Includes(ListedBranches, n)

HasConventional == HasBranch(develop) \/ HasBranch(main) \/ HasBranch(master)

RemoteAdvertisesTrunk ==
  call.sh.remote \in {Printed(RemoteWithHead), Printed(RemoteWithHeadPadded)}

\* C1: when the project path does not exist, each of the five operations of
\* the git route returns its sentinel ([] for getBranches, null for the
\* others) and no external command is run during the call.
C1_MissingPathSentinel ==
  \A a \in GitActions :
    (GitOp(a) /\ PathMissing) =>
      /\ execLog = <<>>
      /\ response.kind = "data"
      /\ IF a = <<"getBranches">> THEN response.payload = <<>>
         ELSE response.payload = Null

\* a diff was requested for a missing path although git would have printed one
C1_Witness ==
  /\ GitOp(<<"getDiff">>)
  /\ PathMissing
  /\ call.body.projectPath = RepoPath
  /\ call.sh.diff.ok /\ call.sh.diff.out # <<>>
  /\ response = DataResponse(Null)

\* C2: the default branch is the first of develop, main, master that occurs
\* in the branch list, whatever the order of the list.
C2_DefaultBranchPriority ==
  (GitOp(<<"getDefaultBranch">>) /\ ~PathMissing) =>
    /\ HasBranch(develop) => response.payload = Some(develop)
    /\ (~HasBranch(develop) /\ HasBranch(main)) => response.payload = Some(main)
    /\ (~HasBranch(develop) /\ ~HasBranch(main) /\ HasBranch(master)) =>
         response.payload = Some(master)

\* all three names are listed, master first and develop last, and develop is chosen
C2_Witness ==
  /\ GitOp(<<"getDefaultBranch">>) /\ ~PathMissing
  /\ ListedBranches = <<master, main, develop>>
  /\ response.payload = Some(develop)

\* C3: with none of develop, main, master in the branch list the default
\* branch is the HEAD branch the remote reports if the remote query succeeds
\* and reports one, else the first branch of the list, and null only when the
\* remote gives nothing and the list is empty; the remote is queried in
\* that case and never when a conventional name is listed.
C3_DefaultBranchFallbacks ==
  (GitOp(<<"getDefaultBranch">>) /\ ~PathMissing) =>
    /\ HasConventional => ~Ran(GitRemoteShowCmd)
    /\ ~HasConventional =>
         /\ Ran(GitRemoteShowCmd)
         /\ RemoteAdvertisesTrunk => response.payload = Some(trunk)
         /\ ~RemoteAdvertisesTrunk =>
              response.payload =
                IF Len(ListedBranches) > 0 THEN Some(ListedBranches[1]) ELSE Null
    /\ response.payload = Null => (~RemoteAdvertisesTrunk /\ ListedBranches = <<>>)

\* no conventional name among two listed branches, and the remote's HEAD wins
\* over the first of them
C3_Witness ==
  /\ GitOp(<<"getDefaultBranch">>) /\ ~PathMissing
  /\ ListedBranches = <<hotfix, featureBranch>>
  /\ call.sh.remote = Printed(RemoteWithHeadPadded)
  /\ response.payload = Some(trunk)

\* C10: when the path exists and the git command fails, the operations do
\* not raise (the route answers with data): getBranches gives [],
\* getCurrentBranch and getDiff give null, getDefaultBranch gives a branch
\* name or null, and a failing remote query leaves getDefaultBranch with the
\* first listed branch.
C10_CommandFailureSentinels ==
  (call.endpoint = "git" /\ call.body.json /\ Served /\ ~PathMissing) =>
    /\ (call.body.action = <<"getBranches">> /\ ~call.sh.branch.ok) =>
         response = DataResponse(<<>>)
    /\ (call.body.action = <<"getCurrentBranch">> /\ ~call.sh.current.ok) =>
         response = DataResponse(Null)
    /\ (call.body.action = <<"getDiff">> /\ ~call.sh.diff.ok) =>
         response = DataResponse(Null)
    /\ call.body.action = <<"getDefaultBranch">> =>
         /\ response.kind = "data" /\ response.status = StatusOk
         /\ response.payload \in {Null} \cup {Some(n) : n \in BranchNames \cup {trunk}}
         /\ (~call.sh.remote.ok /\ ~HasConventional /\ Len(ListedBranches) > 0) =>
              response.payload = Some(ListedBranches[1])

\* the remote query failed after it was run, and the first listed branch is returned
C10_Witness ==
  /\ GitOp(<<"getDefaultBranch">>) /\ ~PathMissing
  /\ ~call.sh.remote.ok
  /\ Ran(GitRemoteShowCmd)
  /\ ListedBranches = <<featureBranch, hotfix>>
  /\ response = DataResponse(Some(featureBranch))

\* the jira route has answered a well-formed getTicket request
TicketRequested ==
  call.endpoint = "jira" /\ call.body.json /\ call.body.action = <<"getTicket">> /\ Served

\* the bullet glyph U+2022
Bullet == "U+2022"

ClaimTree ==
  Node("doc", <<>>,
       <<Node("paragraph", <<>>, <<Text(<<"Done">>)>>),
         Node("bulletList", <<>>,
              <<Node("listItem", <<>>, <<Text(<<"A">>)>>),
                Node("listItem", <<>>, <<Text(<<"B">>)>>)>>)>>)

ClaimTreeFetched ==
  /\ TicketRequested
  /\ call.env = FullEnvironment
  /\ call.tracker.reached /\ call.tracker.ok
  /\ call.tracker.fields.description = Description("object", <<>>, ClaimTree)

\* C4: the description tree paragraph[text 'Done'], bulletList[listItem[text
\* 'A'], listItem[text 'B']] is flattened to exactly 'Done' LF, then LF
\* bullet-glyph blank 'A' LF bullet-glyph blank 'B' LF, with nothing before
\* 'Done'.
C4_FlattenedExample ==
  ClaimTreeFetched =>
    /\ ~response.payload.isNull
    /\ response.payload.description =
         <<"Done", LF>> \o <<LF, Bullet, SP, "A", LF, Bullet, SP, "B", LF>>

\* C5: a branch name yields a ticket ID exactly when it is zero or more
\* word prefixes, each followed by '/', followed by WORD '-' NUMBER, and the
\* ID is then that WORD '-' NUMBER: the key is one word without '/'.
IsWord(x) == x # <<>> /\ \A k \in 1..Len(x) : x[k] \in WordChars
IsNumber(x) == x # <<>> /\ \A k \in 1..Len(x) : x[k] \in Digits

\* s[1..n] is a sequence of words that are each followed by '/'
IsPrefixes(s, n) ==
  /\ n = 0 \/ s[n] = "/"
  /\ \A k \in 1..n : s[k] \in WordChars \cup {"/"}
  /\ \A k \in 1..n : s[k] = "/" => (k > 1 /\ s[k - 1] # "/")

\* the identifiers WORD-NUMBER that the grammar (prefix/)*WORD-NUMBER finds
\* in s, the number taken as long as it goes
GrammarIds(s) ==
  {SubSeq(s, i, e) : <<i, h, e>> \in
     {x \in (1..Len(s)) \X (1..Len(s)) \X (1..Len(s)) :
        /\ x[1] < x[2] /\ x[2] < x[3]
        /\ IsPrefixes(s, x[1] - 1)
        /\ IsWord(SubSeq(s, x[1], x[2] - 1))
        /\ s[x[2]] = "-"
        /\ IsNumber(SubSeq(s, x[2] + 1, x[3]))
        /\ (x[3] = Len(s) \/ s[x[3] + 1] \notin Digits)}}

BranchSelected == call.endpoint = "page" /\ Served /\ call.config = EmptyConfig

C5_TicketIdGrammar ==
  BranchSelected =>
    /\ ~config.ticketId.isNull <=> GrammarIds(call.workingBranch) # {}
    /\ ~config.ticketId.isNull => config.ticketId.val \in GrammarIds(call.workingBranch)

\* C6: if any of the three tracker credentials is unset or empty, a getTicket
\* request is answered with an error that names the missing configuration and
\* no request is made to the tracker; the tracker is asked only when all
\* three are present.
CredentialMissing ==
  \E v \in {call.env.JIRA_DOMAIN, call.env.JIRA_EMAIL, call.env.JIRA_API_TOKEN} :
    v.isNull \/ v.val = <<>>

C6_CredentialsRequired ==
  TicketRequested =>
    /\ CredentialMissing =>
         /\ fetchLog = <<>>
         /\ response.kind = "error"
         /\ response.status # StatusOk
         /\ Includes(response.payload, MissingJiraConfiguration[1])
    /\ fetchLog # <<>> => ~CredentialMissing

\* only the API token is missing (set, but empty) and the tracker would have
\* answered
C6_Witness ==
  /\ TicketRequested
  /\ ~call.env.JIRA_API_TOKEN.isNull /\ call.env.JIRA_API_TOKEN.val = <<>>
  /\ ~Falsy(call.env.JIRA_DOMAIN) /\ ~Falsy(call.env.JIRA_EMAIL)
  /\ call.tracker.ok
  /\ response.kind = "error" /\ fetchLog = <<>>

\* the llm route has answered a well-formed validateDiffAgainstTicket request
ValidationRequested ==
  /\ call.endpoint = "llm" /\ call.body.json
  /\ call.body.action = <<"validateDiffAgainstTicket">>
  /\ Served

FenceCount(s) == Cardinality({k \in 1..Len(s) : s[k] = Fence})

\* C7: the user message of the prompt holds the ticket text unchanged inside
\* the first fenced block and the diff text unchanged inside the second, in
\* that order (one fence opens before the ticket text, one closes and one
\* opens between the two texts, one closes after the diff, and nothing is
\* added to or taken from the texts), and the system message is the fixed
\* instruction.
C7_PromptVerbatim ==
  ValidationRequested =>
    /\ Len(modelLog) = 1
    /\ LET messages == modelLog[1].messages
           user == messages[2].content
           ticket == call.body.ticketDescription
           diff == call.body.gitDiff
       IN  /\ Len(messages) = 2
           /\ messages[1] = [role |-> "system", content |-> systemPrompt]
           /\ messages[2].role = "user"
           /\ FenceCount(user) = 4 + FenceCount(ticket) + FenceCount(diff)
           /\ \E i, j \in 1..(Len(user) + 1) :
                /\ i + Len(ticket) <= j
                /\ j + Len(diff) <= Len(user) + 1
                /\ SubSeq(user, i, i + Len(ticket) - 1) = ticket
                /\ SubSeq(user, j, j + Len(diff) - 1) = diff
                /\ FenceCount(SubSeq(user, 1, i - 1)) = 1
                /\ FenceCount(SubSeq(user, i + Len(ticket), j - 1)) = 2
                /\ FenceCount(SubSeq(user, j + Len(diff), Len(user))) = 1

\* a ticket text and a different diff text, both non-empty, were sent to the model
C7_Witness ==
  /\ ValidationRequested
  /\ call.body.ticketDescription = <<LF, "Done", LF>>
  /\ call.body.gitDiff \in DiffTexts \ {<<>>}
  /\ FenceCount(call.body.gitDiff) = 0
  /\ Len(modelLog) = 1

\* C8: the matching delegate never raises: the route answers a
\* validateDiffAgainstTicket request with status 200 and data, which is the
\* completion text when the model call succeeds and a text describing the
\* error when it fails.
C8_DelegateNeverRaises ==
  ValidationRequested =>
    /\ response.status = StatusOk
    /\ response.kind = "data"
    /\ call.llm.ok => response.payload = call.llm.text
    /\ ~call.llm.ok =>
         /\ response.payload # <<>>
         /\ \E k \in 1..Len(response.payload) :
              SubSeq(response.payload, k, Len(response.payload)) = call.llm.message

\* the model call was rejected and the answer is still data with status 200
C8_Witness ==
  /\ ValidationRequested
  /\ ~call.llm.ok /\ call.llm.isError
  /\ response = DataResponse(<<"Error validating diff: ", "Too Many Requests">>)

\* C9 as stated: data with status 200 when the requested operation
\* succeeded, error with another status when it failed, and status 400 with
\* 'Invalid action' and no operation run for an unrecognised action.
HttpCall == call.endpoint \in {"git", "jira", "llm"} /\ Served

KnownAction ==
  /\ call.body.json
  /\ \/ call.endpoint = "git" /\ call.body.action \in GitActions
     \/ call.endpoint = "jira" /\ call.body.action = <<"getTicket">>
     \/ call.endpoint = "llm" /\ call.body.action = <<"validateDiffAgainstTicket">>

UnknownAction == call.body.json /\ ~KnownAction

\* the external command, the tracker request or the model call of the
\* operation failed, or the tracker credentials are missing
OperationFailed ==
  /\ KnownAction
  /\ \/ /\ call.endpoint = "git" /\ ~PathMissing
        /\ \/ call.body.action = <<"getBranches">> /\ ~call.sh.branch.ok
           \/ call.body.action = <<"getCurrentBranch">> /\ ~call.sh.current.ok
           \/ call.body.action = <<"getDiff">> /\ ~call.sh.diff.ok
     \/ /\ call.endpoint = "jira"
        /\ (CredentialMissing \/ ~call.tracker.reached \/ ~call.tracker.ok)
     \/ call.endpoint = "llm" /\ ~call.llm.ok

\* the operation met no failure: the path exists and the commands, the
\* tracker and the model did their part
OperationSucceeded ==
  /\ KnownAction
  /\ \/ /\ call.endpoint = "git" /\ ~PathMissing
        /\ call.body.action = <<"getBranches">> => call.sh.branch.ok
        /\ call.body.action = <<"getCurrentBranch">> => call.sh.current.ok
        /\ call.body.action = <<"getDiff">> => call.sh.diff.ok
        /\ call.body.action = <<"getDefaultBranch">> =>
             (call.sh.branch.ok /\ call.sh.remote.ok)
     \/ /\ call.endpoint = "jira"
        /\ ~CredentialMissing /\ call.tracker.reached /\ call.tracker.ok
        /\ call.tracker.fields.description.kind # "null"
     \/ call.endpoint = "llm" /\ call.llm.ok

NothingRun == execLog = <<>> /\ fetchLog = <<>> /\ modelLog = <<>>

InvalidActionAnswer ==
  /\ response = ErrorResponse(InvalidAction, StatusBadRequest)
  /\ NothingRun

C9_Original ==
  HttpCall =>
    /\ OperationSucceeded => (response.kind = "data" /\ response.status = StatusOk)
    /\ OperationFailed => (response.kind = "error" /\ response.status # StatusOk)
    /\ UnknownAction => InvalidActionAnswer

\* C9 as amended: every answer is data with status 200 or error with another
\* status; it is an error only for a malformed body (500), for an
\* unrecognised action (400, 'Invalid action', nothing run) and for getTicket
\* with a tracker credential missing (500); every other request, also one
\* whose git command, tracker request or model call failed, is answered
\* with data and status 200, the data being the sentinel (null, [] or the
\* error text).
C9_DataUnlessHandlerRaises ==
  HttpCall =>
    /\ response.kind \in {"data", "error"}
    /\ response.kind = "data" <=> response.status = StatusOk
    /\ response.kind = "error" <=>
         \/ ~call.body.json
         \/ UnknownAction
         \/ call.endpoint = "jira" /\ KnownAction /\ CredentialMissing
    /\ ~call.body.json => response.status = StatusServerError
    /\ UnknownAction => InvalidActionAnswer
    /\ (call.endpoint = "jira" /\ KnownAction /\ CredentialMissing) =>
         response.status = StatusServerError
    /\ (OperationFailed /\ response.kind = "data") =>
         CASE call.endpoint = "git" ->
                response.payload = IF call.body.action = <<"getBranches">> THEN <<>> ELSE Null
           [] call.endpoint = "jira" -> response.payload.isNull
           [] OTHER -> response.payload[1] = ErrorValidatingDiff

\* the tracker answered with a non-success status and the route answers
\* with data null and status 200
C9_Witness ==
  /\ TicketRequested
  /\ ~CredentialMissing
  /\ call.tracker.reached /\ ~call.tracker.ok
  /\ response = DataResponse(NoTicket)

\* the route reached JiraClient.getTicket
ClientBuilt == TicketRequested /\ ~CredentialMissing

\* the tracker answered the request with the issue
IssueReturned == call.tracker.reached /\ call.tracker.ok

\* C11: a ticket fetch makes exactly one request to the tracker, whether or
\* not the issue has a parent; a returned ticket of an issue with a parent
\* has exactly one parent entry that holds the parent's key and an empty
\* title and empty descriptions, and a returned ticket of an issue without
\* a parent has no parents field.
C11_OneRequestPlaceholderParent ==
  ClientBuilt =>
    /\ Len(fetchLog) = 1
    /\ fetchLog[1] = TicketRequest(jiraClientFrom(call.env), call.body.ticketId)
    /\ response.kind = "data"
    /\ ~response.payload.isNull =>
         LET parents == response.payload.parents
             parent == call.tracker.fields.parent
         IN  /\ IssueReturned
             /\ parent.given =>
                  /\ parents.given
                  /\ Len(parents.val) = 1
                  /\ parents.val[1].ticketId = parent.key
                  /\ parents.val[1].title = <<>>
                  /\ parents.val[1].description = <<>>
                  /\ parents.val[1].markdownDescription = <<>>
                  /\ parents.val[1].parents = NoParents
             /\ ~parent.given => parents = NoParents

\* an issue with a parent was fetched: one request, one placeholder parent
C11_Witness ==
  /\ ClientBuilt
  /\ IssueReturned
  /\ call.tracker.fields.parent.given
  /\ Len(fetchLog) = 1
  /\ ~response.payload.isNull
  /\ response.payload.parents.given
  /\ response.payload.parents.val[1].ticketId = call.tracker.fields.parent.key

\* C17: for every successful tracker response, whatever the type of the
\* description (null, string or node tree), the fetch returns a ticket and
\* not null; an issue whose description is null is returned with an empty
\* plain-text description.
C17_NullDescriptionTicket ==
  ClientBuilt /\ IssueReturned =>
    /\ response.kind = "data"
    /\ ~response.payload.isNull
    /\ call.tracker.fields.description.kind = "null" =>
         response.payload.description = <<>>

\* fetchJiraTicket has run for call.ticketId
TicketFetched == call.endpoint = "fetchJiraTicket" /\ Served

\* the three kinds of failure of a ticket fetch
TicketNotFound ==
  /\ call.net = "ok" /\ ~CredentialMissing
  /\ call.tracker.reached /\ ~call.tracker.ok
  /\ call.tracker.statusText = <<"Not Found">>

CredentialsAbsent == call.net = "ok" /\ CredentialMissing

TrackerRefused ==
  /\ call.net = "ok" /\ ~CredentialMissing
  /\ call.tracker.reached /\ ~call.tracker.ok
  /\ call.tracker.statusText # <<"Not Found">>

\* C12: for a ticket that is not found, for missing tracker credentials and
\* for a non-success answer of the tracker alike, the ticket-fetch handler
\* ends without an exception and the form shows the same inline message for
\* the requested ticket ID, 'Could not find Jira ticket: <ID>', with the
\* ticket ID set to the requested one.
C12_FailuresShownInline ==
  TicketFetched /\ (TicketNotFound \/ CredentialsAbsent \/ TrackerRefused) =>
    /\ response.kind = "handled"
    /\ config.ticketDescription = Some(CouldNotFindTicket(call.ticketId))
    /\ config.ticketId = Some(call.ticketId)

\* the API token is missing and the form showed another ticket before
C12_Witness ==
  /\ TicketFetched
  /\ CredentialsAbsent
  /\ call.config.ticketId = Some(PROJ123) /\ call.ticketId = OPS7
  /\ fetchLog = <<>>
  /\ config.ticketDescription = Some(CouldNotFindTicket(OPS7))

\* handleValidate has run on the form state call.config
Validated == call.endpoint = "handleValidate" /\ Served

FormIncomplete ==
  Falsy(call.config.projectPath) \/ Falsy(call.config.workingBranch)
    \/ Falsy(call.config.targetBranch)

\* the diff call of the click returned, with the text it returned (null when
\* the path is missing or git diff failed)
DiffReturned ==
  call.world.gitnet = "ok" \/ call.world.onFailure = "sentinel"

ReturnedDiff ==
  IF call.world.gitnet = "ok" /\ call.config.projectPath.val \in call.world.fs
       /\ call.world.sh.diff.ok
  THEN Some(call.world.sh.diff.out) ELSE Null

\* the text the model endpoint answers with
EndpointText ==
  IF call.world.llm.ok THEN call.world.llm.text
  ELSE <<ErrorValidatingDiff>> \o call.world.llm.message

ModelCalled == Includes(response.payload, "validateDiffAgainstTicket")

ValidateWaiting ==
  \E i \in DOMAIN runs : runs[i].pc \in {"getDiff", "validateDiffAgainstTicket"}

\* a run of handleValidate ends in this step
ValidateEnds ==
  \E i \in DOMAIN runs :
    /\ runs[i].pc \in {"getDiff", "validateDiffAgainstTicket"}
    /\ runs'[i].pc = "done"

ExpectedCalls(handler) ==
  CASE handler = "handleProjectSelect" ->
         <<"getBranches", "getCurrentBranch", "getDefaultBranch", "getJiraTicket">>
    [] handler = "handleJiraTicketBlur" -> <<"getJiraTicket">>
    [] handler = "handleValidate" -> <<"getDiff", "validateDiffAgainstTicket">>
    [] OTHER -> <<>>

IsPrefix(a, b) == Len(a) <= Len(b) /\ a = SubSeq(b, 1, Len(a))

CallsOf(i) == {c \in outstanding : c.run = i}

C15_InferredIdOnlyPrefills ==
  [][(~Falsy(config.ticketId) /\ config'.ticketId # config.ticketId)
       => (config'.ticketId.isNull \/ config'.ticketId.val \notin InferredIds)]_vars

\* C18: once no call is in flight, the project path, project name, branch
\* list and working branch of the form belong to the path entered last; after
\* the path was last cleared they are empty and are not filled in again by a
\* run of handleProjectSelect that was started before.
C18_FormFollowsLatestPath ==
  (outstanding = {} /\ ~lastPath.isNull) =>
    IF BlankPath(lastPath.val)
    THEN /\ config.projectPath.isNull
         /\ config.projectName.isNull
         /\ config.workingBranch.isNull
         /\ branches = <<>>
    ELSE /\ ~config.projectPath.isNull => config.projectPath = lastPath
         /\ ~config.projectName.isNull =>
              config.projectName = Some(client_getProjectName(lastPath.val))
         /\ branches \in {<<>>, PageBranches}
         /\ ~Falsy(config.workingBranch) => config.workingBranch.val \in Range(PageBranches)

\* the descriptions a fetch of ticketId can give
DescriptionsFor(ticketId) ==
  {Some(CouldNotFindTicket(ticketId)), Some(StringDescription.text)}

\* C19: once no call is in flight, the ticket ID of the form is the ID that
\* the user entered or that was inferred last (since the form was last
\* reset), and if the last fetch was started for that ID the ticket
\* description is the result of a fetch for it: a fetch that completes late
\* never replaces the ticket ID or the description of a ticket that was
\* requested after it.
C19_LatestTicketWins ==
  (outstanding = {} /\ ~Falsy(lastTicketId)) =>
    /\ config.ticketId = lastTicketId
    /\ lastFetch = lastTicketId =>
         config.ticketDescription \in DescriptionsFor(lastTicketId.val)

\* the text is a message of fetchJiraTicket about a fetch that failed or
\* found nothing
FailureMessage(text) ==
  text # <<>> /\ text[1] \in {CouldNotFindTicket(<<>>)[1], ErrorFetchingTicket(<<>>)[1]}

\* C20: the model is called only with the description of a ticket that was
\* fetched successfully: a 'Could not find Jira ticket' or error message is
\* never sent to the model as the ticket text.
C20_ModelGetsFetchedTicket ==
  \A c \in outstanding :
    c.op = "validateDiffAgainstTicket" => ~FailureMessage(c.args[1])

====
